---- MODULE Spec2Model ----
(***************************************************************************)
(* scSplit, sc_split_maf_s_sparse.py: reference-free demultiplexing of     *)
(* pooled scRNA-seq by expectation-maximisation over per-donor minor       *)
(* allele frequencies.                                                     *)
(*                                                                         *)
(* Numbers.  The program computes in IEEE double precision.  The model     *)
(* computes in fixed point: a probability or frequency x is the integer    *)
(* x * One, a base-2 logarithm y is the integer y * LogOne, every          *)
(* operation rounds to the grid, and the three special values of the       *)
(* floating-point format (NaN, +Inf, -Inf) are kept as three integers      *)
(* outside the range of every finite value.  2 ** x overflows to +Inf      *)
(* at 2^ExpMax and underflows to 0 below 2^-ExpMax, as the double does     *)
(* at 2^1024 and 2^-1075.                                                  *)
(*                                                                         *)
(* Indices.  SNVs are rows 1..V, cells are columns 1..C (barcodes[c] is    *)
(* the label of column c), donors are 0..num-1 as in range(num).           *)
(***************************************************************************)
EXTENDS Integers, Sequences, FiniteSets

\* ------------------------------------------------------------- bounds
NumSNVs == 1
NumCells == 2
MaxCount == 3
MaxK == 2

\* ---------------------------------------------------- number format
One == 3600
LogOne == 256
NumFracBits == 8
MantOne == 16384
ExpMax == 15
NaN == 2000000000
PosInf == 1900000000
NegInf == -1900000000

\* round(2^(2^-b) * MantOne), b = 1..NumFracBits
Root2 == <<23170, 19484, 17867, 17109, 16743, 16562, 16473, 16428>>

IsFinite(x) == x # NaN /\ x # PosInf /\ x # NegInf

\* a / b rounded to the nearest integer, b > 0
RoundDiv(a, b) == (2 * a + b) \div (2 * b)

FNeg(a) ==
    IF a = NaN THEN NaN
    ELSE IF a = PosInf THEN NegInf
    ELSE IF a = NegInf THEN PosInf
    ELSE -a

FAdd(a, b) ==
    IF a = NaN \/ b = NaN THEN NaN
    ELSE IF a = PosInf THEN (IF b = NegInf THEN NaN ELSE PosInf)
    ELSE IF a = NegInf THEN (IF b = PosInf THEN NaN ELSE NegInf)
    ELSE IF b = PosInf \/ b = NegInf THEN b
    ELSE a + b

FSub(a, b) == FAdd(a, FNeg(b))

\* n * x for a stored count n; a sparse matrix stores no zero entry, so a
\* zero count contributes 0 whatever x is
FTimesCount(n, x) ==
    IF n = 0 THEN 0
    ELSE IF x = NaN THEN NaN
    ELSE IF x = PosInf THEN (IF n > 0 THEN PosInf ELSE NegInf)
    ELSE IF x = NegInf THEN (IF n > 0 THEN NegInf ELSE PosInf)
    ELSE n * x

RECURSIVE FSum(_)
FSum(s) == IF s = <<>> THEN 0 ELSE FAdd(Head(s), FSum(Tail(s)))

\* num / den, both in units of 1/One, the quotient in units of 1/One
FDiv(num, den) ==
    IF num = NaN \/ den = NaN THEN NaN
    ELSE IF ~IsFinite(num) /\ ~IsFinite(den) THEN NaN
    ELSE IF ~IsFinite(den) THEN 0
    ELSE IF den = 0 THEN
        (IF num = 0 THEN NaN
         ELSE IF num > 0 THEN PosInf ELSE NegInf)
    ELSE IF ~IsFinite(num) THEN
        (IF (num = PosInf) = (den > 0) THEN PosInf ELSE NegInf)
    ELSE IF den > 0 THEN RoundDiv(One * num, den)
    ELSE RoundDiv(One * (-num), -den)

\* np.log2 --------------------------------------------------------------
RECURSIVE NormExp(_)
NormExp(m) ==
    IF m >= 2 * One THEN 1 + NormExp(m \div 2)
    ELSE IF m < One THEN NormExp(2 * m) - 1
    ELSE 0

RECURSIVE Mantissa(_)
Mantissa(m) ==
    IF m >= 2 * One THEN Mantissa(m \div 2)
    ELSE IF m < One THEN Mantissa(2 * m)
    ELSE (m * MantOne) \div One

RECURSIVE FracLog(_, _)
FracLog(x, b) ==
    IF b > NumFracBits THEN 0
    ELSE LET y == (x * x) \div MantOne
         IN  IF y >= 2 * MantOne
             THEN (LogOne \div (2 ^ b)) + FracLog(y \div 2, b + 1)
             ELSE FracLog(y, b + 1)

\* log2(m / One) in units of 1/LogOne
Log2(m) ==
    IF m = NaN \/ m = NegInf THEN NaN
    ELSE IF m = PosInf THEN PosInf
    ELSE IF m < 0 THEN NaN
    ELSE IF m = 0 THEN NegInf
    ELSE NormExp(m) * LogOne + FracLog(Mantissa(m), 1)

\* 2 ** d ----------------------------------------------------------------
RECURSIVE FracPow(_, _)
FracPow(r, b) ==
    IF b > NumFracBits THEN MantOne
    ELSE LET w == LogOne \div (2 ^ b)
         IN  IF r >= w
             THEN (Root2[b] * FracPow(r - w, b + 1)) \div MantOne
             ELSE FracPow(r, b + 1)

\* 2^(d / LogOne) in units of 1/One
Exp2(d) ==
    IF d = NaN THEN NaN
    ELSE IF d = PosInf THEN PosInf
    ELSE IF d = NegInf THEN 0
    ELSE LET q == d \div LogOne
             f == FracPow(d % LogOne, 1)
         IN  IF q >= ExpMax THEN PosInf
             ELSE IF q < -ExpMax THEN 0
             ELSE IF q >= 0 THEN RoundDiv(f * One, MantOne) * (2 ^ q)
             ELSE RoundDiv(f * One, MantOne * (2 ^ (-q)))

\* 1 / x, x in units of 1/One
Recip(x) == FDiv(One, x)

\* ------------------------------------------------- program constants
MaxIterations == 15
ThresholdNum == 9
ThresholdDen == 10

\* ------------------------------------------------------------- state
VARIABLES
    ref_bc_mtx,          \* base_calls_mtx[0]: V x C reference counts
    alt_bc_mtx,          \* base_calls_mtx[1]: alternate counts
    all_POS,             \* base_calls_mtx[2]: the SNV panel
    barcodes,            \* base_calls_mtx[3]: the cell barcodes
    num,                 \* num_models
    P_s_c,               \* C x num posterior P(s|c)
    lP_c_s,              \* C x num log2 likelihood log P(c|s)
    assigned,            \* num lists of barcodes
    model_MAF,           \* V x num minor allele frequencies
    iterations,          \* run_model's round counter
    sum_log_likelihood,  \* run_model's trace of total log likelihoods
    pc,                  \* "init", "loop", "mstep", "done", "failed"
    error                \* the exception that ended the run, or "none"

inputs == <<ref_bc_mtx, alt_bc_mtx, all_POS, barcodes, num>>
fields == <<P_s_c, lP_c_s, assigned, model_MAF>>
vars == <<ref_bc_mtx, alt_bc_mtx, all_POS, barcodes, num, P_s_c, lP_c_s,
          assigned, model_MAF, iterations, sum_log_likelihood, pc, error>>

Donors(K) == 0 .. (K - 1)
NumCols(mtx) == IF Len(mtx) = 0 THEN 0 ELSE Len(mtx[1])

\* csr_matrix.sum(): the total of every entry
RECURSIVE SeqSum(_)
SeqSum(s) == IF s = <<>> THEN 0 ELSE Head(s) + SeqSum(Tail(s))
MatrixSum(mtx) == SeqSum([v \in 1 .. Len(mtx) |-> SeqSum(mtx[v])])

\* ------------------------------------------------------ models.__init__
Zeros(rows, K) == [r \in 1 .. rows |-> [n \in Donors(K) |-> 0]]

\* the values np.random.beta may return, a grid inside the open interval (0,1)
BetaDraws == {One \div 4, (3 * One) \div 4}

\* variant: the random start is skipped and model_MAF keeps the zeros of np.zeros
InitialMAF_zeros(beta_sim) ==
    [v \in DOMAIN beta_sim |-> [n \in DOMAIN beta_sim[v] |-> 0]]

\* model_MAF.loc[:, n] = [1 - item[0] for item in beta_sim]
InitialMAF(beta_sim) ==
    [v \in DOMAIN beta_sim |-> [n \in DOMAIN beta_sim[v] |-> One - beta_sim[v][n]]]

\* np.zeros refuses a negative dimension; np.random.beta refuses a parameter <= 0
InitRaises ==
    \/ num < 0
    \/ num >= 1 /\ (MatrixSum(ref_bc_mtx) <= 0 \/ MatrixSum(alt_bc_mtx) <= 0)

Construct ==
    /\ pc = "init"
    /\ IF InitRaises
       THEN /\ pc' = "failed"
            /\ error' = "ValueError"
            /\ UNCHANGED fields
       ELSE /\ \E beta_sim \in [1 .. Len(all_POS) -> [Donors(num) -> BetaDraws]] :
                  model_MAF' = InitialMAF(beta_sim)
            /\ P_s_c' = Zeros(Len(barcodes), num)
            /\ lP_c_s' = Zeros(Len(barcodes), num)
            /\ assigned' = [n \in Donors(num) |-> <<>>]
            /\ pc' = "loop"
            /\ UNCHANGED error
    /\ UNCHANGED <<inputs, iterations, sum_log_likelihood>>

\* ------------------------------------------- models.calculate_model_MAF
\* one entry of sparse_row.dot(P_s_c)
Dot(row, P, n) == FSum([c \in 1 .. Len(row) |-> FTimesCount(row[c], P[c][n])])

RowPlus(a, b) == [c \in 1 .. Len(a) |-> a[c] + b[c]]

\* variant: no Laplace smoothing
calculate_model_MAF_unsmoothed(alt, ref, P, K) ==
    [v \in 1 .. Len(alt) |->
        [n \in Donors(K) |->
            FDiv(Dot(alt[v], P, n), Dot(RowPlus(alt[v], ref[v]), P, n))]]

\* variant: the new estimate is averaged with the current one
calculate_model_MAF_damped(alt, ref, P, K) ==
    [v \in 1 .. Len(alt) |->
        [n \in Donors(K) |->
            LET new == FDiv(FAdd(Dot(alt[v], P, n), One),
                            FAdd(Dot(RowPlus(alt[v], ref[v]), P, n), 2 * One))
            IN  IF IsFinite(new) /\ IsFinite(model_MAF[v][n])
                THEN (new + model_MAF[v][n]) \div 2
                ELSE NaN]]

calculate_model_MAF(alt, ref, P, K) ==
    [v \in 1 .. Len(alt) |->
        [n \in Donors(K) |->
            FDiv(FAdd(Dot(alt[v], P, n), One),
                 FAdd(Dot(RowPlus(alt[v], ref[v]), P, n), 2 * One))]]

\* ------------------------------------- models.calculate_cell_likelihood
cell_log_likelihood(alt, ref, maf, K) ==
    LET log_alt == [v \in 1 .. Len(maf) |-> [n \in Donors(K) |-> Log2(maf[v][n])]]
        log_ref == [v \in 1 .. Len(maf) |->
                       [n \in Donors(K) |-> Log2(FSub(One, maf[v][n]))]]
    IN  [c \in 1 .. NumCols(ref) |->
            [n \in Donors(K) |->
                FSum([v \in 1 .. Len(maf) |->
                    FAdd(FTimesCount(alt[v][c], log_alt[v][n]),
                         FTimesCount(ref[v][c], log_ref[v][n]))])]]

\* variant: the denominator leaves out the donor's own term
cell_posterior_without_self(lP, K) ==
    [c \in 1 .. Len(lP) |->
        [i \in Donors(K) |->
            Recip(FSum([j \in 1 .. K |->
                IF j - 1 = i THEN 0 ELSE Exp2(FSub(lP[c][j - 1], lP[c][i]))]))]]

\* variant: the likelihoods are normalised over the cells, not over the donors
cell_posterior_over_cells(lP, K) ==
    [c \in 1 .. Len(lP) |->
        [i \in Donors(K) |->
            Recip(FSum([d \in 1 .. Len(lP) |-> Exp2(FSub(lP[d][i], lP[c][i]))]))]]

cell_posterior(lP, K) ==
    [c \in 1 .. Len(lP) |->
        [i \in Donors(K) |->
            Recip(FSum([j \in 1 .. K |-> Exp2(FSub(lP[c][j - 1], lP[c][i]))]))]]

\* ------------------------------------------------- models.assign_cells
\* variant: the threshold is one half
AtLeastHalf(p) ==
    IF p = NaN \/ p = NegInf THEN FALSE
    ELSE IF p = PosInf THEN TRUE
    ELSE p * 2 >= One

AtLeastThreshold(p) ==
    IF p = NaN \/ p = NegInf THEN FALSE
    ELSE IF p = PosInf THEN TRUE
    ELSE p * ThresholdDen >= ThresholdNum * One

\* P_s_c.loc[P_s_c[n] >= 0.9].index.values.tolist(): the labels kept, in index order
RECURSIVE Selected(_, _, _, _)
Selected(P, labels, n, c) ==
    IF c > Len(labels) THEN <<>>
    ELSE IF AtLeastThreshold(P[c][n])
         THEN <<labels[c]>> \o Selected(P, labels, n, c + 1)
         ELSE Selected(P, labels, n, c + 1)

RECURSIVE Insert(_, _)
Insert(x, s) ==
    IF s = <<>> THEN <<x>>
    ELSE IF x <= Head(s) THEN <<x>> \o s
    ELSE <<Head(s)>> \o Insert(x, Tail(s))

RECURSIVE sorted(_)
sorted(s) == IF s = <<>> THEN <<>> ELSE Insert(Head(s), sorted(Tail(s)))

\* variant: the selected barcodes are not sorted
assign_cells_unsorted(P, labels, K) ==
    [n \in Donors(K) |-> Selected(P, labels, n, 1)]

assign_cells(P, labels, K) ==
    [n \in Donors(K) |-> sorted(Selected(P, labels, n, 1))]

\* ------------------------------------------------------------ run_model
\* variant: the loop test is off by one
LoopCondition_inclusive(it) == it <= MaxIterations

LoopCondition(it) == it < MaxIterations

\* DataFrame.sum() and Series.sum() skip NaN
SkipNaN(s) == SelectSeq(s, LAMBDA x : x # NaN)

total_log_likelihood(lP, K) ==
    FSum(SkipNaN([j \in 1 .. K |->
        FSum(SkipNaN([c \in 1 .. Len(lP) |-> lP[c][j - 1]]))]))

\* the sparse sums and products of the two count matrices need equal shapes
ShapesAgree == NumCols(alt_bc_mtx) = NumCols(ref_bc_mtx)

\* loop test, iterations += 1, model.calculate_cell_likelihood()
EStep ==
    /\ pc = "loop"
    /\ LoopCondition(iterations)
    /\ iterations' = iterations + 1
    /\ IF num >= 1 /\ ~ShapesAgree
       THEN /\ pc' = "failed"
            /\ error' = "ValueError"
            /\ UNCHANGED fields
       ELSE /\ lP_c_s' = cell_log_likelihood(alt_bc_mtx, ref_bc_mtx, model_MAF, num)
            /\ P_s_c' = cell_posterior(lP_c_s', num)
            /\ pc' = "mstep"
            /\ UNCHANGED <<assigned, model_MAF, error>>
    /\ UNCHANGED <<inputs, sum_log_likelihood>>

\* variant: the M-step re-weights the posterior in place
MStep_touching_posterior ==
    /\ pc = "mstep"
    /\ model_MAF' = calculate_model_MAF(alt_bc_mtx, ref_bc_mtx, P_s_c, num)
    /\ P_s_c' = Zeros(Len(barcodes), num)
    /\ sum_log_likelihood' =
           Append(sum_log_likelihood, total_log_likelihood(lP_c_s, num))
    /\ pc' = "loop"
    /\ UNCHANGED <<inputs, lP_c_s, assigned, iterations, error>>

\* model.calculate_model_MAF(), sum_log_likelihood.append(...)
MStep ==
    /\ pc = "mstep"
    /\ IF ~ShapesAgree
       THEN /\ pc' = "failed"
            /\ error' = "ValueError"
            /\ UNCHANGED <<model_MAF, sum_log_likelihood>>
       ELSE /\ model_MAF' = calculate_model_MAF(alt_bc_mtx, ref_bc_mtx, P_s_c, num)
            /\ sum_log_likelihood' =
                   Append(sum_log_likelihood, total_log_likelihood(lP_c_s, num))
            /\ pc' = "loop"
            /\ UNCHANGED error
    /\ UNCHANGED <<inputs, P_s_c, lP_c_s, assigned, iterations>>

\* loop exit, model.assign_cells(), the output files
AssignCells ==
    /\ pc = "loop"
    /\ ~LoopCondition(iterations)
    /\ assigned' = assign_cells(P_s_c, barcodes, num)
    /\ pc' = "done"
    /\ UNCHANGED <<inputs, P_s_c, lP_c_s, model_MAF, iterations,
                   sum_log_likelihood, error>>

Next == Construct \/ EStep \/ MStep \/ AssignCells

\* --------------------------------------------------------------- inputs
CountValues == {0, MaxCount}

\* the panel and the barcodes as read_base_calls_matrix hands them over;
\* the barcodes come in file order, which need not be sorted
Panel == [v \in 1 .. NumSNVs |-> 100 * v]
Barcodes == [c \in 1 .. NumCells |-> 10 * (NumCells + 1 - c)]

\* a count matrix in which every cell has one depth at every SNV of the panel
Matrix(depth) == [v \in 1 .. NumSNVs |-> depth]

NotStarted ==
    /\ all_POS = Panel
    /\ barcodes = Barcodes
    /\ P_s_c = <<>>
    /\ lP_c_s = <<>>
    /\ assigned = <<>>
    /\ model_MAF = <<>>
    /\ iterations = 0
    /\ sum_log_likelihood = <<>>
    /\ pc = "init"
    /\ error = "none"

\* inputs inside the data model: equal shapes, counts >= 0, K >= 1
Init ==
    /\ num \in 1 .. MaxK
    /\ \E r \in [1 .. NumCells -> CountValues] : ref_bc_mtx = Matrix(r)
    /\ \E a \in [1 .. NumCells -> CountValues] : alt_bc_mtx = Matrix(a)
    /\ NotStarted

Spec == Init /\ [][Next]_vars

\* inputs outside the data model: a negative count, K < 1, or an alternate
\* matrix with one column more than the reference matrix
InvalidCountValues == CountValues \cup {-1}

HasNegative(mtx) == \E v \in 1 .. Len(mtx) : \E c \in 1 .. Len(mtx[v]) : mtx[v][c] < 0

InvalidInput ==
    \/ num < 1
    \/ ~ShapesAgree
    \/ HasNegative(ref_bc_mtx)
    \/ HasNegative(alt_bc_mtx)

InitInvalid ==
    /\ num \in (-1) .. MaxK
    /\ \E r \in [1 .. NumCells -> InvalidCountValues] : ref_bc_mtx = Matrix(r)
    /\ \E w \in {NumCells, NumCells + 1} :
           \E a \in [1 .. w -> InvalidCountValues] : alt_bc_mtx = Matrix(a)
    /\ InvalidInput
    /\ NotStarted

SpecInvalid == InitInvalid /\ [][Next]_vars

\* ------------------------------------------------------------ properties
Range(s) == {s[i] : i \in 1 .. Len(s)}
Cells == 1 .. Len(barcodes)
SNVs == 1 .. Len(all_POS)
EStepDone == pc \in {"mstep", "loop", "done"} /\ iterations >= 1
MStepDone == pc \in {"mstep", "loop", "done"} /\ Len(sum_log_likelihood) >= 1
RowSum(c) == FSum([j \in 1 .. num |-> P_s_c[c][j - 1]])
ZeroCountCell(c) == \A v \in SNVs : ref_bc_mtx[v][c] = 0 /\ alt_bc_mtx[v][c] = 0

\* C1: a run whose initialization succeeded performs exactly MaxIterations
\* rounds: the round counter never passes 15, the trace has one entry per
\* completed round, the run fails nowhere after initialization, and Done is
\* reached (and the lists filled) only with 15 rounds and 15 trace entries.
C1_FifteenRounds ==
    /\ iterations \in 0 .. MaxIterations
    /\ pc = "init" => iterations = 0 /\ sum_log_likelihood = <<>>
    /\ pc = "loop" => Len(sum_log_likelihood) = iterations
    /\ pc = "mstep" => Len(sum_log_likelihood) = iterations - 1
    /\ pc = "failed" => iterations = 0
    /\ pc = "done" => iterations = MaxIterations /\ Len(sum_log_likelihood) = MaxIterations
    /\ (\E n \in DOMAIN assigned : assigned[n] # <<>>) => pc = "done"

\* a run that went through all the rounds although its total log likelihood
\* had stopped changing after the second round
C1_Witness ==
    /\ pc = "done"
    /\ num >= 2
    /\ Len(sum_log_likelihood) = MaxIterations
    /\ \A i \in 2 .. (MaxIterations - 1) : sum_log_likelihood[i] = sum_log_likelihood[i + 1]

\* C2: each round is one E-step then one M-step.  An E-step starts from the
\* loop head, reads the frequencies as the previous M-step (or the
\* initialization) left them and writes the likelihoods and posteriors of
\* exactly those frequencies; the step after an E-step is the M-step, which
\* writes the frequencies of exactly the posterior of the same round and
\* returns to the loop head.
C2_EStepThenMStep ==
    [][ /\ pc = "mstep" =>
            /\ iterations = Len(sum_log_likelihood) + 1
            /\ lP_c_s = cell_log_likelihood(alt_bc_mtx, ref_bc_mtx, model_MAF, num)
            /\ P_s_c = cell_posterior(lP_c_s, num)
            /\ pc' = "loop"
            /\ iterations' = iterations
            /\ P_s_c' = P_s_c
        /\ (pc = "loop" /\ iterations >= 1) =>
            /\ iterations = Len(sum_log_likelihood)
            /\ model_MAF = calculate_model_MAF(alt_bc_mtx, ref_bc_mtx, P_s_c, num)
        /\ pc' = "mstep" =>
            /\ pc = "loop"
            /\ iterations' = iterations + 1
            /\ model_MAF' = model_MAF
        /\ pc = "loop" => pc' \in {"mstep", "done"}
      ]_vars

\* the M-step of the second round is pending and the frequencies it will
\* replace are no longer the initial draw
C2_Witness ==
    /\ pc = "mstep"
    /\ iterations = 2
    /\ \E v \in SNVs : \E n \in Donors(num) :
           model_MAF[v][n] \notin {One - r : r \in BetaDraws}
    /\ \E c \in Cells : \E n \in Donors(num) : P_s_c[c][n] * num # One

\* C3: after every E-step every posterior entry is a probability and every
\* row sums to 1, up to one unit of the number format per donor.
C3_PosteriorRowsSumToOne ==
    EStepDone =>
        \A c \in Cells :
            /\ \A n \in Donors(num) :
                   IsFinite(P_s_c[c][n]) /\ P_s_c[c][n] >= 0 /\ P_s_c[c][n] <= One
            /\ RowSum(c) - One \in (-num) .. num

\* a cell whose posterior is far from uniform, after the frequencies moved
C3_Witness ==
    /\ EStepDone
    /\ iterations >= 2
    /\ num >= 2
    /\ \E c \in Cells : P_s_c[c][0] > 20 * P_s_c[c][1] /\ P_s_c[c][1] > 0

\* C4: after every M-step every frequency is strictly between 0 and 1, and
\* whenever an M-step is about to run its smoothed numerator is positive and
\* strictly below its smoothed denominator.
C4_FrequenciesStrictlyInside ==
    /\ MStepDone =>
           \A v \in SNVs : \A n \in Donors(num) :
               IsFinite(model_MAF[v][n]) /\ model_MAF[v][n] > 0 /\ model_MAF[v][n] < One
    /\ pc = "mstep" =>
           \A v \in SNVs : \A n \in Donors(num) :
               LET weighted_alt == Dot(alt_bc_mtx[v], P_s_c, n)
                   weighted_all == Dot(RowPlus(alt_bc_mtx[v], ref_bc_mtx[v]), P_s_c, n)
               IN  /\ IsFinite(weighted_alt) /\ IsFinite(weighted_all)
                   /\ 0 < weighted_alt + One
                   /\ weighted_alt + One < weighted_all + 2 * One

\* an M-step that moved one donor above 3/4 and another below 1/4, beyond
\* every initial draw
C4_Witness ==
    /\ MStepDone
    /\ pc = "loop"
    /\ \E v \in SNVs : \E n, m \in Donors(num) :
           model_MAF[v][n] * 4 > 3 * One /\ model_MAF[v][m] * 4 < One

\* C5: at Done no barcode is in the lists of two donors.
C5_ListsDisjoint ==
    pc = "done" =>
        \A n, m \in Donors(num) :
            n # m => Range(assigned[n]) \cap Range(assigned[m]) = {}

\* two donors each got a cell
C5_Witness ==
    /\ pc = "done"
    /\ \E n, m \in Donors(num) : n # m /\ assigned[n] # <<>> /\ assigned[m] # <<>>

C7_InvalidInputRejected ==
    InvalidInput =>
        \/ pc = "init"
        \/ pc = "failed" /\ error # "none" /\ iterations = 0

\* C8: after any E-step a cell without a single read has log likelihood 0
\* under every donor and posterior exactly 1/K for every donor, and with two
\* or more donors it is in no list at Done.
C8_ZeroCountCellIsUniform ==
    EStepDone =>
        \A c \in Cells :
            ZeroCountCell(c) =>
                /\ \A n \in Donors(num) : lP_c_s[c][n] = 0 /\ num * P_s_c[c][n] = One
                /\ (pc = "done" /\ num >= 2) =>
                       \A n \in Donors(num) : barcodes[c] \notin Range(assigned[n])

\* a finished run with two or more donors and a cell without reads next to
\* a cell with reads
C8_Witness ==
    /\ pc = "done"
    /\ num >= 2
    /\ \E c \in Cells : ZeroCountCell(c)
    /\ \E c \in Cells : ~ZeroCountCell(c)

C10_Frame ==
    [][ /\ inputs' = inputs
        /\ pc' = "mstep" =>
               /\ model_MAF' = model_MAF
               /\ assigned' = assigned
               /\ sum_log_likelihood' = sum_log_likelihood
               /\ DOMAIN lP_c_s' = Cells /\ DOMAIN P_s_c' = Cells
               /\ \A c \in Cells :
                      DOMAIN lP_c_s'[c] = Donors(num) /\ DOMAIN P_s_c'[c] = Donors(num)
        /\ pc = "mstep" =>
               /\ lP_c_s' = lP_c_s
               /\ P_s_c' = P_s_c
               /\ assigned' = assigned
               /\ DOMAIN model_MAF' = SNVs
               /\ \A v \in SNVs : DOMAIN model_MAF'[v] = Donors(num)
        /\ pc' = "done" =>
               /\ lP_c_s' = lP_c_s
               /\ P_s_c' = P_s_c
               /\ model_MAF' = model_MAF
               /\ sum_log_likelihood' = sum_log_likelihood
        /\ pc' # "done" => \A n \in DOMAIN assigned' : assigned'[n] = <<>>
      ]_vars

\* an M-step is pending in a later round, with non-trivial matrices to keep
C10_Witness ==
    /\ pc = "mstep"
    /\ iterations = MaxIterations
    /\ num >= 2
    /\ \E c \in Cells : P_s_c[c][0] # P_s_c[c][1]

====
